---- MODULE Spec2Model ----
(***************************************************************************)
(* Pokemon HOME collection: the SQLite record store (schema.py), the       *)
(* writers that upsert into it (capture.py, parse.py, batch_parse.py,      *)
(* batch_coord.py) and the bounded-concurrency extraction runner           *)
(* (batch_parse.py).                                                       *)
(*                                                                         *)
(* A column value is NULL (the empty tuple) or a one-element tuple <<v>>;  *)
(* the NOT NULL columns id, box_number, box_slot hold bare integers.       *)
(***************************************************************************)
EXTENDS Integers, Sequences, FiniteSets, TLC

VARIABLES
    pokemon,    \* the pokemon table: a set of rows, each a function on Columns
    seq,        \* sqlite_sequence of the pokemon table (AUTOINCREMENT)
    now,        \* the wall clock read by datetime.now()
    last,       \* the most recent upsert_pokemon call: caller, argument, outcome
    files,      \* the image files that exist on disk
    runpc,      \* position of run(): "idle", "gather" or "done"
    queue,      \* run(): the loaded, truncated and enriched queue
    conc,       \* run(): the --concurrency argument
    sem,        \* asyncio.Semaphore: its free permits
    waiters,    \* asyncio.Semaphore: the tasks blocked in acquire(), in order
    task,       \* process_one per queue position: position, attempt, held fields
    counters,   \* run(): the ok / errors / skipped / missing counters
    trace,      \* per queue position: what process_one did so far (attempt
                \* outcomes, sleeps, upserts, its share of the counters)
    inputDir,   \* batch_results/input: the chunk files, [name, content]
    outputDir,  \* batch_results/output: the result files, [name, content]
    importedDir,    \* batch_results/imported: the archived result files
    batchlog,   \* the most recent batch_coord command and what it returned
    reads,      \* per result file name: the cmd_import_all runs that read it
    parse_queue,    \* parse_queue.json as cmd_split reads it
    capture_state,  \* the capture_state table: a set of rows [key, value, updated_at]
    written,    \* per progress key: the value of the most recent set_state
    statelog,   \* the most recent get_state / set_state call and its result
    walk        \* capture_all_pokemon: its arguments, locals and position, and
                \* the slots it has processed

storeVars == <<pokemon, seq, last>>
runnerVars == <<files, runpc, queue, conc, sem, waiters, task, counters, trace>>
batchVars == <<inputDir, outputDir, importedDir, batchlog, reads, parse_queue>>
stateVars == <<capture_state, written, statelog, walk>>
vars == <<pokemon, seq, now, last, files, runpc, queue, conc, sem, waiters, task,
          counters, trace, inputDir, outputDir, importedDir, batchlog, reads,
          parse_queue, capture_state, written, statelog, walk>>

\* ------------------------------------------------------------------ bounds

\* grid slots modelled per box (box 0 only)
MaxSlot == 2
\* largest AUTOINCREMENT value handed out
MaxSeq == 4
\* largest --batch-size argument
MaxBatchSize == 2
\* largest --concurrency argument
MaxConcurrency == 2
\* most rate-limit signals and other exceptions the runner meets in one run
MaxFaults == 3
MaxRows == 2
MaxPages == 2
MaxWalks == 2
Population == 12

\* ------------------------------------------------------------------ schema

NULL == <<>>

KeyCols == {"box_number", "box_slot"}

\* the modelled columns of CREATE TABLE pokemon
Columns ==
    {"id", "box_number", "box_slot", "species_name", "level", "is_shiny",
     "date_caught", "box_screenshot_path", "detail_screenshot_path",
     "detail_screenshot2_path", "sprite_path", "parsed_at", "raw_json"}

\* DEFAULT clause of a column (is_shiny BOOLEAN DEFAULT 0), NULL without one
ColumnDefault(c) == IF c = "is_shiny" THEN <<0>> ELSE NULL

Keys == {<<0, s>> : s \in 0..(MaxSlot - 1)}

\* ------------------------------------------------------------------ upsert_pokemon

\* cols = [k for k in data if k != "id"]
cols(data) == DOMAIN data \ {"id"}

\* the SET clause: every column of cols except the two key columns
updates(data) == cols(data) \ KeyCols

\* a table without the UNIQUE(box_number, box_slot) constraint: no conflict
Conflict_NoUnique(tbl, data) == {}

\* the rows the ON CONFLICT(box_number, box_slot) clause addresses
Conflict(tbl, data) ==
    {r \in tbl : r.box_number = data.box_number /\ r.box_slot = data.box_slot}

\* sqlite3.OperationalError while preparing the statement: an empty SET
\* clause ("incomplete input") or a column the table does not have
SqlError(data) ==
    \/ updates(data) = {}
    \/ ~(cols(data) \subseteq Columns)

\* the row INSERT creates: supplied columns, defaults elsewhere, a new rowid
InsertRow(data, newid) ==
    [c \in Columns |->
        IF c = "id" THEN newid
        ELSE IF c \in cols(data) THEN data[c]
        ELSE ColumnDefault(c)]

\* DO UPDATE SET c = excluded.c for the columns of the SET clause
UpdateRow(r, data) ==
    [c \in Columns |-> IF c \in updates(data) THEN data[c] ELSE r[c]]

\* cur.lastrowid on the fresh connection: the new rowid after an insert,
\* 0 (no insert happened on this connection) after the DO UPDATE path
LastRowId(inserted, newid) == IF inserted THEN <<newid>> ELSE <<0>>

\* upsert_pokemon(data) on table tbl with sequence sq: the new table and
\* sequence, the returned value, and whether execute() raised
upsert_pokemon(tbl, sq, data) ==
    IF SqlError(data)
    THEN [pokemon |-> tbl, seq |-> sq, ret |-> NULL, raised |-> TRUE]
    ELSE LET hit == Conflict(tbl, data)
             newid == sq + 1
         IN  IF hit = {}
             THEN [pokemon |-> tbl \cup {InsertRow(data, newid)},
                   seq |-> newid,
                   ret |-> LastRowId(TRUE, newid),
                   raised |-> FALSE]
             ELSE [pokemon |-> (tbl \ hit) \cup {UpdateRow(r, data) : r \in hit},
                   seq |-> newid,
                   ret |-> LastRowId(FALSE, newid),
                   raised |-> FALSE]

\* one call of upsert_pokemon by caller op, recorded in last
DoUpsert(op, data) ==
    LET res == upsert_pokemon(pokemon, seq, data)
    IN  /\ pokemon' = res.pokemon
        /\ seq' = res.seq
        /\ last' = [op |-> op, data |-> data, ret |-> res.ret, raised |-> res.raised]

\* ------------------------------------------------------------------ helpers

\* the mapping d restricted to the names in S
Restrict(d, S) == [k \in S |-> d[k]]

\* {k: v for k, v in d.items() if k not in drop and v is not None}
NonNull(d, drop) == Restrict(d, {k \in DOMAIN d : k \notin drop /\ d[k] # NULL})

\* json.dumps(d): the serialised text of d
json_dumps(d) == <<"json", d>>

\* datetime.now().isoformat()
isoformat(t) == <<"iso", t>>

KeyOf(k) == [box_number |-> k[1], box_slot |-> k[2]]

\* ------------------------------------------------------------------ direct callers

\* mappings a direct caller of the upsert API passes besides the key:
\* nothing, a level, a box screenshot path, a surrogate id, an unknown name
CallerFields ==
    {<<>>} \cup
    {[level |-> v] : v \in {NULL, <<5>>, <<50>>}} \cup
    {[box_screenshot_path |-> <<"images/boxes/box_000.png">>, level |-> <<50>>]} \cup
    {[id |-> 9, level |-> <<5>>]} \cup
    {[nickname2 |-> <<"x">>]}

UpsertCall ==
    \E k \in Keys, f \in CallerFields :
        /\ seq < MaxSeq
        /\ DoUpsert("api", f @@ KeyOf(k))
        /\ UNCHANGED <<now, runnerVars, batchVars, stateVars>>

\* ------------------------------------------------------------------ capture.py

\* the box-grid screenshot a slot was cropped from (column box_screenshot_path)
BoxPath(k) == <<"images/boxes/box", k[1]>>

\* a capture stage recording the box screenshot of a slot through the upsert
\* API; parse_one reads the column back to crop the sprite
RecordBoxScreenshot ==
    \E k \in Keys :
        /\ seq < MaxSeq
        /\ DoUpsert("capture_box", [box_screenshot_path |-> <<BoxPath(k)>>] @@ KeyOf(k))
        /\ UNCHANGED <<now, runnerVars, batchVars, stateVars>>

\* the detail screenshot capture_slot saves for a grid slot
DetailPath(k) == <<"images/detail/pokemon", k[1], k[2]>>

\* capture_all_pokemon: a non-empty slot is upserted with its screenshot path
CaptureSlot ==
    \E k \in Keys :
        /\ seq < MaxSeq
        /\ DoUpsert("capture", [detail_screenshot_path |-> <<DetailPath(k)>>] @@ KeyOf(k))
        /\ UNCHANGED <<now, runnerVars, batchVars, stateVars>>

\* ------------------------------------------------------------------ extraction results

\* JSON objects the service returns for the first template (null = NULL)
FullFields == [species_name |-> <<"Pikachu">>, level |-> <<50>>]
Fields1 == {FullFields, [species_name |-> <<"Pikachu">>, level |-> NULL]}

\* ------------------------------------------------------------------ parse.py

\* the cropped sprite parse_one stores for a slot
SpritePath(k) == <<"images/sprites/box", k[1], k[2]>>

\* the mapping parse_one upserts for row, extraction meta and crop outcome
parse_update(row, meta, cropped, t) ==
    LET sprite_path == IF row.box_screenshot_path # NULL /\ cropped
                       THEN <<SpritePath(<<row.box_number, row.box_slot>>)>>
                       ELSE NULL
    IN  NonNull(meta, {}) @@
        [box_number |-> row.box_number,
         box_slot |-> row.box_slot,
         parsed_at |-> <<isoformat(t)>>,
         raw_json |-> <<json_dumps(meta)>>,
         sprite_path |-> sprite_path]

\* main + parse_one: one selected row (a named slot, or any unparsed row with a
\* detail screenshot) whose screenshot file exists and extraction succeeded
ParseOne ==
    \E row \in pokemon, named \in BOOLEAN, meta \in {FullFields}, cropped \in BOOLEAN :
        /\ seq < MaxSeq
        /\ named \/ (row.detail_screenshot_path # NULL /\ row.parsed_at = NULL)
        /\ row.detail_screenshot_path # NULL
        /\ DoUpsert("parse_one", parse_update(row, meta, cropped, now))
        /\ UNCHANGED <<now, runnerVars, batchVars, stateVars>>

\* ------------------------------------------------------------------ batch_parse.py: write_result

NON_DB_KEYS_RUNNER == {"box", "slot", "image_path"}

\* a write_result that stores the fields without the parsed timestamp
write_update_NoTimestamp(item, data, t) ==
    NonNull(data, NON_DB_KEYS_RUNNER) @@
    [box_number |-> item.box,
     box_slot |-> item.slot,
     raw_json |-> <<json_dumps(data)>>]

\* the mapping write_result upserts for a queue item and its merged fields
write_update(item, data, t) ==
    NonNull(data, NON_DB_KEYS_RUNNER) @@
    [box_number |-> item.box,
     box_slot |-> item.slot,
     parsed_at |-> <<isoformat(t)>>,
     raw_json |-> <<json_dumps(data)>>]

\* a queue item for key k
Item(k) == [box |-> k[1], slot |-> k[2], image_path |-> <<DetailPath(k)>>]

\* the runner writing one successful extraction
WriteResult ==
    \E k \in Keys, data \in Fields1 :
        /\ seq < MaxSeq
        /\ DoUpsert("write_result", write_update(Item(k), data, now))
        /\ UNCHANGED <<now, runnerVars, batchVars, stateVars>>

\* ------------------------------------------------------------------ batch_coord.py: cmd_import_all

NON_DB_KEYS_IMPORT == {"box", "slot", "image_path", "image_path2"}

\* PRAGMA table_info(pokemon): the table's column names
db_cols == Columns

\* an update that also takes the entries whose value is null
import_update_WritesNulls(item, t) ==
    Restrict(item, {k \in DOMAIN item : k \notin NON_DB_KEYS_IMPORT /\ k \in db_cols}) @@
    [box_number |-> item.box,
     box_slot |-> item.slot,
     parsed_at |-> <<isoformat(t)>>,
     raw_json |-> <<json_dumps(item)>>]

\* the mapping cmd_import_all upserts for one item of a result file
import_update(item, t) ==
    Restrict(item, {k \in DOMAIN item :
                      k \notin NON_DB_KEYS_IMPORT /\ k \in db_cols /\ item[k] # NULL}) @@
    [box_number |-> item.box,
     box_slot |-> item.slot,
     parsed_at |-> <<isoformat(t)>>,
     raw_json |-> <<json_dumps(item)>>]

\* items of result files: the queue item plus extracted fields, possibly with
\* a name that is no column
ResultItems ==
    {f @@ Item(k) : k \in Keys,
                    f \in {[species_name |-> <<"Eevee">>, level |-> NULL],
                           [species_name |-> <<"Eevee">>, types |-> <<"Normal">>]}}

ImportItem ==
    \E item \in ResultItems :
        /\ seq < MaxSeq
        /\ DoUpsert("import_all", import_update(item, now))
        /\ UNCHANGED <<now, runnerVars, batchVars, stateVars>>

\* ------------------------------------------------------------------ batch_parse.py: the extraction service

\* a response body: a JSON object, or text that is no JSON
Obj(f) == <<"object", f>>
Garbage == <<"text", "Sorry, I cannot read this image">>

\* the code-fence marker around a response
Fence == <<"code fence">>

\* JSON objects returned for the second template: a date and a null for a
\* field of the first response, or no date and a value for that field
Fields2 ==
    {[date_caught |-> <<"2023-04-01">>, level |-> NULL],
     [date_caught |-> NULL, level |-> <<51>>]}

\* what one client.messages.create call does: a text message (bare or wrapped
\* in a code fence), anthropic.RateLimitError, or another exception
Replies(objs) ==
    {[kind |-> "message", text |-> IF f THEN <<Fence, b, Fence>> ELSE <<b>>] :
        f \in BOOLEAN, b \in {Obj(o) : o \in objs} \cup {Garbage}}
    \cup {[kind |-> "rate_limit", text |-> <<>>], [kind |-> "exception", text |-> <<>>]}

\* the text between the fences, the json prefix stripped, when the text
\* starts with a fence; the text itself otherwise
Unfence(text) == IF text[1] = Fence THEN text[2] ELSE text[1]

\* json.loads(raw): the object, or JSONDecodeError
json_loads(raw) ==
    IF raw[1] = "object"
    THEN [tag |-> "ok", data |-> raw[2]]
    ELSE [tag |-> "json_error", data |-> <<>>]

\* call_claude: the parsed object or the exception that leaves it
call_claude(reply) ==
    IF reply.kind = "message"
    THEN json_loads(Unfence(reply.text))
    ELSE [tag |-> reply.kind, data |-> <<>>]

\* ------------------------------------------------------------------ batch_parse.py: run and process_one

\* no upsert_pokemon call yet
NoCall == [op |-> "none", data |-> <<>>, ret |-> NULL, raised |-> FALSE]

\* counters = {"ok": 0, "errors": 0, "skipped": 0, "missing": 0}
ZeroCounters == [ok |-> 0, errors |-> 0, skipped |-> 0, missing |-> 0]

\* for attempt in range(3)
LastAttempt == 2

\* the second detail screenshot of a slot, relative to collection/
Detail2Path(k) == <<"images/detail2/pokemon", k[1], k[2]>>

\* str(collection_dir / p2)
Join(p) == <<"collection", p>>

\* a queue file that lists the first slot once per line
QueueFile_Duplicates == [i \in 1..MaxSlot |-> Item(<<0, 0>>)]

\* parse_queue.json as queue materialization writes it from a scan of the
\* record store: one item per record, in key order
QueueFile == [i \in 1..MaxSlot |-> Item(<<0, i - 1>>)]

\* the --limit argument: none (0) or one item
Limits == {0, 1}

\* queue[:limit] when limit is given and not 0
Truncate(q, limit) ==
    IF limit = 0 THEN q
    ELSE SubSeq(q, 1, IF limit < Len(q) THEN limit ELSE Len(q))

\* item["image_path2"] from the row's detail_screenshot2_path, if it has one
Enrich(tbl, item) ==
    LET rows == {r \in tbl : /\ r.box_number = item.box
                             /\ r.box_slot = item.slot
                             /\ r.detail_screenshot2_path # NULL}
    IN  IF rows = {} THEN item
        ELSE [image_path2 |->
                <<Join((CHOOSE r \in rows : TRUE).detail_screenshot2_path[1])>>] @@ item

\* the parsed check inverted: a row that is not parsed yet counts as parsed
already_parsed_Inverted(tbl, box, slot) ==
    \E r \in tbl : r.box_number = box /\ r.box_slot = slot /\ r.parsed_at = NULL

\* already_parsed(box, slot)
already_parsed(tbl, box, slot) ==
    \E r \in tbl : r.box_number = box /\ r.box_slot = slot /\ r.parsed_at # NULL

NewTask == [pc |-> "new", attempt |-> 0, data |-> <<>>]
NewTrace == [hist |-> <<>>, sleeps |-> <<>>, upserts |-> 0, ok |-> 0, errors |-> 0, jsoncall |-> 0]

\* positions at which process_one has returned
Returned == {"ret_skipped", "ret_missing", "ret_ok", "ret_json_err", "end"}

\* every task has run its first step: the event loop runs the first step of
\* all gathered tasks, in queue order, before it delivers any completion
AllStarted == \A j \in DOMAIN task : task[j].pc # "new"

\* the lines of run() up to asyncio.gather
RunStart ==
    /\ runpc = "idle"
    /\ \E limit \in Limits, n \in 1..MaxConcurrency :
        LET cut == Truncate(QueueFile, limit)
            q == [i \in 1..Len(cut) |-> Enrich(pokemon, cut[i])]
        IN  /\ queue' = q
            /\ conc' = n
            /\ sem' = n
            /\ waiters' = <<>>
            /\ task' = [i \in 1..Len(cut) |-> NewTask]
            /\ trace' = [i \in 1..Len(cut) |-> NewTrace]
            /\ counters' = ZeroCounters
            /\ runpc' = "gather"
    /\ UNCHANGED <<batchVars, stateVars>>
    /\ UNCHANGED <<pokemon, seq, now, last, files>>

\* a release that frees the permit and wakes nobody
Released_LostWakeup(tk, sm, ws) == [task |-> tk, sem |-> sm + 1, waiters |-> ws]

\* a release that frees the permit and also hands one to the first waiter
Released_FreesAndWakes(tk, sm, ws) ==
    IF ws = <<>>
    THEN [task |-> tk, sem |-> sm + 1, waiters |-> ws]
    ELSE [task |-> [tk EXCEPT ![Head(ws)].pc = "granted"], sem |-> sm + 1, waiters |-> Tail(ws)]

\* Semaphore.release(): the first waiter gets the permit, else it is freed
Released(tk, sm, ws) ==
    IF ws = <<>>
    THEN [task |-> tk, sem |-> sm + 1, waiters |-> ws]
    ELSE [task |-> [tk EXCEPT ![Head(ws)].pc = "granted"], sem |-> sm, waiters |-> Tail(ws)]

\* process_one up to its first suspension: the parsed check, the file check,
\* the semaphore, and the first call of the first attempt
Start(i) ==
    /\ runpc = "gather"
    /\ i \in DOMAIN task
    /\ task[i].pc = "new"
    /\ \A j \in 1..(i - 1) : task[j].pc # "new"
    /\ IF already_parsed(pokemon, queue[i].box, queue[i].slot)
       THEN /\ counters' = [counters EXCEPT !.skipped = @ + 1]
            /\ task' = [task EXCEPT ![i].pc = "ret_skipped"]
            /\ UNCHANGED <<sem, waiters, trace>>
       ELSE IF queue[i].image_path[1] \notin files
       THEN /\ counters' = [counters EXCEPT !.missing = @ + 1]
            /\ task' = [task EXCEPT ![i].pc = "ret_missing"]
            /\ UNCHANGED <<sem, waiters, trace>>
       ELSE IF sem > 0 /\ waiters = <<>>
       THEN /\ sem' = sem - 1
            /\ task' = [task EXCEPT ![i].pc = "call1"]
            /\ UNCHANGED <<waiters, counters, trace>>
       ELSE /\ waiters' = Append(waiters, i)
            /\ task' = [task EXCEPT ![i].pc = "acquire"]
            /\ UNCHANGED <<sem, counters, trace>>
    /\ UNCHANGED <<batchVars, stateVars>>
    /\ UNCHANGED <<pokemon, seq, now, last, files, runpc, queue, conc>>

\* a waiter woken by release() enters the section and makes its first call
Resume(i) ==
    /\ runpc = "gather"
    /\ i \in DOMAIN task
    /\ task[i].pc = "granted"
    /\ task' = [task EXCEPT ![i].pc = "call1"]
    /\ UNCHANGED <<batchVars, stateVars>>
    /\ UNCHANGED <<pokemon, seq, now, last, files, runpc, queue, conc, sem, waiters,
                   counters, trace>>

\* malformed output that ends the item without being counted
OnJsonError_Uncounted(attempt) == [pc |-> "ret_json_err", errors |-> 0, sleep |-> 0]

\* malformed output handled like a transient failure: counted and retried
OnJsonError_Retries(attempt) ==
    IF attempt = 2
    THEN [pc |-> "end", errors |-> 1, sleep |-> 0]
    ELSE [pc |-> "sleep", errors |-> 1, sleep |-> 1]

\* except json.JSONDecodeError: count an error and return
OnJsonError(attempt) == [pc |-> "ret_json_err", errors |-> 1, sleep |-> 0]

\* a rate limit counted as an error on every attempt
OnRateLimit_CountsError(attempt) ==
    [pc |-> "sleep", errors |-> 1, sleep |-> 2 ^ (attempt + 1)]

\* except anthropic.RateLimitError: sleep 2 ** (attempt + 1)
OnRateLimit(attempt) == [pc |-> "sleep", errors |-> 0, sleep |-> 2 ^ (attempt + 1)]

\* except Exception: count an error on the last attempt, else sleep 1
OnException(attempt) ==
    IF attempt = LastAttempt
    THEN [pc |-> "end", errors |-> 1, sleep |-> 0]
    ELSE [pc |-> "sleep", errors |-> 0, sleep |-> 1]

\* the except clause that catches an attempt's exception
Handler(tag, attempt) ==
    CASE tag = "json_error" -> OnJsonError(attempt)
      [] tag = "rate_limit" -> OnRateLimit(attempt)
      [] OTHER -> OnException(attempt)

\* the attempts of the run so far that ended in a retriable exception
Faults ==
    Cardinality({p \in UNION {{<<i, j>> : j \in DOMAIN trace[i].hist} : i \in DOMAIN trace} :
                    trace[p[1]].hist[p[2]] \in {"rate_limit", "exception"}})

\* an attempt of task i ends in the exception tag
Fail(i, tag) ==
    LET h == Handler(tag, task[i].attempt)
        tk == [task EXCEPT ![i].pc = h.pc, ![i].data = <<>>]
        rel == IF h.pc = "sleep"
               THEN [task |-> tk, sem |-> sem, waiters |-> waiters]
               ELSE Released(tk, sem, waiters)
    IN  /\ tag \in {"rate_limit", "exception"} => Faults < MaxFaults
        /\ task' = rel.task
        /\ sem' = rel.sem
        /\ waiters' = rel.waiters
        /\ counters' = [counters EXCEPT !.errors = @ + h.errors]
        /\ trace' = [trace EXCEPT ![i].hist = Append(@, tag),
                                  ![i].sleeps = IF h.sleep > 0 THEN Append(@, h.sleep) ELSE @,
                                  ![i].errors = @ + h.errors,
                                  ![i].jsoncall = IF tag # "json_error" THEN @
                                                  ELSE IF task[i].pc = "call2" THEN 2 ELSE 1]

\* write_result(item, data), counters["ok"] += 1, return; an exception of
\* the upsert is caught like any other
Succeed(i, data) ==
    LET upd == write_update(queue[i], data, now)
        res == upsert_pokemon(pokemon, seq, upd)
        rel == Released([task EXCEPT ![i].pc = "ret_ok", ![i].data = <<>>], sem, waiters)
    IN  /\ DoUpsert("write_result", upd)
        /\ IF res.raised
           THEN Fail(i, "exception")
           ELSE /\ task' = rel.task
                /\ sem' = rel.sem
                /\ waiters' = rel.waiters
                /\ counters' = [counters EXCEPT !.ok = @ + 1]
                /\ trace' = [trace EXCEPT ![i].hist = Append(@, "ok"),
                                          ![i].upserts = @ + 1,
                                          ![i].ok = @ + 1]

\* whether the item has a second screenshot that exists on disk
HasSecond(item) ==
    "image_path2" \in DOMAIN item /\ item.image_path2[1] \in files

\* the first call of an attempt completes
Reply1(i) ==
    /\ runpc = "gather"
    /\ AllStarted
    /\ i \in DOMAIN task
    /\ task[i].pc = "call1"
    /\ \E reply \in Replies(Fields1) :
        LET r == call_claude(reply)
        IN  IF r.tag # "ok"
            THEN Fail(i, r.tag) /\ UNCHANGED <<pokemon, seq, last>>
            ELSE IF HasSecond(queue[i])
            THEN /\ task' = [task EXCEPT ![i].pc = "call2", ![i].data = r.data]
                 /\ UNCHANGED <<pokemon, seq, last, sem, waiters, counters, trace>>
            ELSE Succeed(i, r.data)
    /\ UNCHANGED <<now, files, runpc, queue, conc, batchVars, stateVars>>

\* an update that takes every field of the second response, null or not
Merge_TakesNulls(data, caught) == caught @@ data

\* data.update({k: v for k, v in caught_data.items() if v is not None})
Merge(data, caught) == NonNull(caught, {}) @@ data

\* the second call of an attempt completes
Reply2(i) ==
    /\ runpc = "gather"
    /\ AllStarted
    /\ i \in DOMAIN task
    /\ task[i].pc = "call2"
    /\ \E reply \in Replies(Fields2) :
        LET r == call_claude(reply)
        IN  IF r.tag # "ok"
            THEN Fail(i, r.tag) /\ UNCHANGED <<pokemon, seq, last>>
            ELSE Succeed(i, Merge(task[i].data, r.data))
    /\ UNCHANGED <<now, files, runpc, queue, conc, batchVars, stateVars>>

\* an item that runs out of attempts ends every task that has not returned
Wake_CancelsOthers(i) ==
    /\ runpc = "gather"
    /\ AllStarted
    /\ i \in DOMAIN task
    /\ task[i].pc = "sleep"
    /\ IF task[i].attempt = LastAttempt
       THEN /\ task' = [j \in DOMAIN task |->
                            IF task[j].pc \in Returned THEN task[j]
                            ELSE [task[j] EXCEPT !.pc = "end"]]
            /\ sem' = conc
            /\ waiters' = <<>>
            /\ trace' = trace
       ELSE /\ task' = [task EXCEPT ![i].pc = "call1", ![i].attempt = @ + 1]
            /\ UNCHANGED <<sem, waiters, trace>>
    /\ UNCHANGED <<batchVars, stateVars>>
    /\ UNCHANGED <<pokemon, seq, now, last, files, runpc, queue, conc, counters>>

\* asyncio.sleep returns: the next attempt, or the end of the loop
Wake(i) ==
    /\ runpc = "gather"
    /\ AllStarted
    /\ i \in DOMAIN task
    /\ task[i].pc = "sleep"
    /\ IF task[i].attempt = LastAttempt
       THEN LET rel == Released([task EXCEPT ![i].pc = "end"], sem, waiters)
            IN  /\ task' = rel.task
                /\ sem' = rel.sem
                /\ waiters' = rel.waiters
                /\ trace' = trace
       ELSE /\ task' = [task EXCEPT ![i].pc = "call1", ![i].attempt = @ + 1]
            /\ UNCHANGED <<sem, waiters, trace>>
    /\ UNCHANGED <<batchVars, stateVars>>
    /\ UNCHANGED <<pokemon, seq, now, last, files, runpc, queue, conc, counters>>

\* asyncio.gather returns and run() prints the summary
GatherReturns ==
    /\ runpc = "gather"
    /\ \A i \in DOMAIN task : task[i].pc \in Returned
    /\ runpc' = "done"
    /\ UNCHANGED <<batchVars, stateVars>>
    /\ UNCHANGED <<pokemon, seq, now, last, files, queue, conc, sem, waiters, task,
                   counters, trace>>

\* ------------------------------------------------------------------ parts that are not running

\* no batch_coord command has run: the three directories are empty
NoCommand == [cmd |-> "none", size |-> 0, ret |-> 0]

BatchIdle ==
    /\ inputDir = {}
    /\ outputDir = {}
    /\ importedDir = {}
    /\ batchlog = NoCommand
    /\ reads = <<>>
    /\ parse_queue = <<>>

\* progress keys written by capture.py
StateKeys == {"pages_captured", "total_pages", "detail_complete"}

NoStateCall == [op |-> "none", key |-> "", arg |-> NULL, ret |-> NULL]

\* capture_all_pokemon is not running and has processed nothing
NoWalk ==
    [pc |-> "idle", n |-> 0, start |-> <<0, 0, 0>>, limit |-> 0, total_pages |-> 0,
     page_num |-> 0, row |-> 0, col |-> 0, position |-> 0, prev_page_hash |-> FALSE,
     done |-> {}, recent |-> <<>>, shot |-> NULL]

\* the capture_state table after init_db
StateIdle ==
    /\ capture_state = {}
    /\ written = [k \in StateKeys |-> NULL]
    /\ statelog = NoStateCall
    /\ walk = NoWalk

\* ------------------------------------------------------------------ the store a run starts on

\* what the store and the disk hold for a slot when the runner starts
Kinds == {"pending", "noimage", "pending2", "parsed"}

\* the row of slot k of the given kind
RowOf(k, kind) ==
    [c \in Columns |->
        CASE c = "id" -> k[2] + 1
          [] c = "box_number" -> k[1]
          [] c = "box_slot" -> k[2]
          [] c = "is_shiny" -> <<0>>
          [] c = "detail_screenshot_path" -> <<DetailPath(k)>>
          [] c = "detail_screenshot2_path" ->
                IF kind = "pending2" THEN <<Detail2Path(k)>> ELSE NULL
          [] c = "parsed_at" -> IF kind = "parsed" THEN <<isoformat(0)>> ELSE NULL
          [] c = "raw_json" -> IF kind = "parsed" THEN <<json_dumps(FullFields)>> ELSE NULL
          [] c = "species_name" -> IF kind = "parsed" THEN <<"Eevee">> ELSE NULL
          [] OTHER -> NULL]

InitRunner ==
    \E kind \in [Keys -> Kinds] :
        /\ pokemon = {RowOf(k, kind[k]) : k \in Keys}
        /\ seq = MaxSlot
        /\ now = 1
        /\ last = NoCall
        /\ files = {DetailPath(k) : k \in {x \in Keys : kind[x] # "noimage"}}
                   \cup {Join(Detail2Path(k)) : k \in {x \in Keys : kind[x] = "pending2"}}
        /\ runpc = "idle"
        /\ queue = <<>>
        /\ conc = 0
        /\ sem = 0
        /\ waiters = <<>>
        /\ task = <<>>
        /\ counters = ZeroCounters
        /\ trace = <<>>
        /\ BatchIdle
        /\ StateIdle

NextRunner ==
    \/ RunStart
    \/ \E i \in 1..MaxSlot : Start(i)
    \/ \E i \in 1..MaxSlot : Resume(i)
    \/ \E i \in 1..MaxSlot : Reply1(i)
    \/ \E i \in 1..MaxSlot : Reply2(i)
    \/ \E i \in 1..MaxSlot : Wake(i)
    \/ GatherReturns

SpecRunner == InitRunner /\ [][NextRunner]_vars

\* the event loop runs every task that is ready, every call is answered and
\* every sleep ends
FairRunner ==
    /\ WF_vars(RunStart)
    /\ WF_vars(GatherReturns)
    /\ \A i \in 1..MaxSlot :
        /\ WF_vars(Start(i))
        /\ WF_vars(Resume(i))
        /\ WF_vars(Reply1(i))
        /\ WF_vars(Reply2(i))
        /\ WF_vars(Wake(i))

SpecRunnerFair == SpecRunner /\ FairRunner

\* ------------------------------------------------------------------ batch_coord.py: cmd_split

\* the names of the files of a directory
Names(dir) == {f.name : f \in dir}

\* a filter that finds no parsed key
parsed_keys_None(tbl) == {}

\* SELECT box_number, box_slot FROM pokemon WHERE parsed_at IS NOT NULL
parsed_keys(tbl) == {<<r.box_number, r.box_slot>> : r \in {x \in tbl : x.parsed_at # NULL}}

\* [item for item in queue if (item["box"], item["slot"]) not in parsed]
pending(q, tbl) ==
    LET parsed == parsed_keys(tbl)
    IN  SelectSeq(q, LAMBDA item : <<item.box, item.slot>> \notin parsed)

\* range(0, n, k)
Starts(n, k) == {i \in 0..(n - 1) : i % k = 0}

\* p[i:i+k]
Slice(p, i, k) == SubSeq(p, i + 1, IF i + k < Len(p) THEN i + k ELSE Len(p))

\* a split that leaves out a last chunk shorter than the batch size
batches_DropsPartial(p, k) ==
    [j \in 1..(Len(p) \div k) |-> Slice(p, (j - 1) * k, k)]

\* [pending[i:i+batch_size] for i in range(0, len(pending), batch_size)]
batches(p, k) ==
    [j \in 1..Cardinality(Starts(Len(p), k)) |-> Slice(p, (j - 1) * k, k)]

\* cmd_split(batch_size): the input directory afterwards and the value returned
cmd_split(dir, q, tbl, k) ==
    LET b == batches(pending(q, tbl), k)
    IN  [input |-> dir \cup {[name |-> j - 1, content |-> b[j]] :
                                j \in {x \in DOMAIN b : x - 1 \notin Names(dir)}},
         ret |-> Len(b)]

\* the pending items as queue materialization lists them: the records with a
\* detail image path and no parsed timestamp, in key order
materialize(tbl) ==
    SelectSeq(QueueFile,
              LAMBDA item : \E r \in tbl : /\ r.box_number = item.box
                                           /\ r.box_slot = item.slot
                                           /\ r.detail_screenshot_path # NULL
                                           /\ r.parsed_at = NULL)

\* parse_queue.json is written again from the record store
Materialize ==
    /\ parse_queue' = materialize(pokemon)
    /\ UNCHANGED <<pokemon, seq, now, last, runnerVars, inputDir, outputDir, importedDir,
                   batchlog, reads, stateVars>>

Split ==
    \E k \in 1..MaxBatchSize :
        LET r == cmd_split(inputDir, parse_queue, pokemon, k)
        IN  /\ inputDir' = r.input
            /\ batchlog' = [cmd |-> "split", size |-> k, ret |-> r.ret]
            /\ UNCHANGED <<pokemon, seq, now, last, runnerVars, outputDir, importedDir,
                           reads, parse_queue, stateVars>>

\* ------------------------------------------------------------------ batch_coord.py: cmd_import_all

\* what the out-of-process extraction adds to the items of a chunk: fields,
\* or no species and a name that is no column
BatchFields ==
    {[species_name |-> <<"Eevee">>, level |-> NULL],
     [species_name |-> NULL, types |-> <<"Normal">>]}

\* the extraction done elsewhere puts the result file of a chunk into output/
WorkerWrites ==
    \E f \in inputDir, e \in BatchFields :
        /\ f.name \notin Names(outputDir) \cup Names(importedDir)
        /\ outputDir' = outputDir \cup
              {[name |-> f.name, content |-> [j \in DOMAIN f.content |-> e @@ f.content[j]]]}
        /\ UNCHANGED <<pokemon, seq, now, last, runnerVars, inputDir, importedDir,
                       batchlog, reads, parse_queue, stateVars>>

RECURSIVE sorted(_)
\* sorted(OUTPUT_DIR.glob("batch_*.json"))
sorted(dir) ==
    IF dir = {} THEN <<>>
    ELSE LET f == CHOOSE x \in dir : \A y \in dir : x.name <= y.name
         IN  <<f>> \o sorted(dir \ {f})

RECURSIVE import_items(_, _, _, _)
\* for item in results: upsert_pokemon(update)
import_items(tbl, sq, items, t) ==
    IF items = <<>> THEN [pokemon |-> tbl, seq |-> sq, n |-> 0]
    ELSE LET res == upsert_pokemon(tbl, sq, import_update(Head(items), t))
             rest == import_items(res.pokemon, res.seq, Tail(items), t)
         IN  [rest EXCEPT !.n = @ + 1]

\* an archive step that copies the file and leaves it in output/
Archive_Copies(out, imp, f) ==
    [output |-> out, imported |-> {g \in imp : g.name # f.name} \cup {f}]

\* f.rename(imported / f.name)
Archive(out, imp, f) ==
    [output |-> out \ {f}, imported |-> {g \in imp : g.name # f.name} \cup {f}]

RECURSIVE import_files(_, _, _)
\* for f in files: upsert every item of f, then move f to imported/
import_files(st, fs, t) ==
    IF fs = <<>> THEN st
    ELSE LET res == import_items(st.pokemon, st.seq, Head(fs).content, t)
             dirs == Archive(st.output, st.imported, Head(fs))
         IN  import_files([pokemon |-> res.pokemon, seq |-> res.seq,
                           output |-> dirs.output, imported |-> dirs.imported,
                           n |-> st.n + res.n],
                          Tail(fs), t)

ImportAll ==
    LET fs == sorted(outputDir)
        st == import_files([pokemon |-> pokemon, seq |-> seq, output |-> outputDir,
                            imported |-> importedDir, n |-> 0], fs, now)
    IN  /\ pokemon' = st.pokemon
        /\ seq' = st.seq
        /\ outputDir' = st.output
        /\ importedDir' = st.imported
        /\ batchlog' = [cmd |-> "import", size |-> Len(fs), ret |-> st.n]
        /\ reads' = [n \in DOMAIN reads \cup Names(outputDir) |->
                        (IF n \in DOMAIN reads THEN reads[n] ELSE 0)
                        + (IF n \in Names(outputDir) THEN 1 ELSE 0)]
        /\ UNCHANGED <<now, last, runnerVars, inputDir, parse_queue, stateVars>>

\* what the store holds for a slot when the batch commands start
BatchKinds == {"pending", "parsed", "norow"}

InitBatch ==
    \E kind \in [Keys -> BatchKinds] :
        /\ pokemon = {RowOf(k, kind[k]) : k \in {x \in Keys : kind[x] # "norow"}}
        /\ seq = MaxSlot
        /\ now = 1
        /\ last = NoCall
        /\ files = {}
        /\ runpc = "idle"
        /\ queue = <<>>
        /\ conc = 0
        /\ sem = 0
        /\ waiters = <<>>
        /\ task = <<>>
        /\ counters = ZeroCounters
        /\ trace = <<>>
        /\ inputDir = {}
        /\ outputDir = {}
        /\ importedDir = {}
        /\ batchlog = NoCommand
        /\ reads = <<>>
        /\ parse_queue = materialize(pokemon)
        /\ StateIdle

NextBatch ==
    \/ CaptureSlot
    \/ Materialize
    \/ Split
    \/ WorkerWrites
    \/ ImportAll

SpecBatch == InitBatch /\ [][NextBatch]_vars

\* ------------------------------------------------------------------ schema.py: get_state, set_state

\* values capture.py stores: page and grid numbers as text, and "true"
StateValues == {"0", "1", "true"}

\* defaults capture.py passes to get_state, and None
StateDefaults == {NULL, <<"0">>, <<"200">>}

\* the rows of the table with key k
StateRows(tbl, k) == {r \in tbl : r.key = k}

\* an update that has no WHERE clause: it sets the value of every row
set_state_UpdatesAll(tbl, k, v, t) ==
    IF StateRows(tbl, k) # {}
    THEN {[r EXCEPT !.value = <<v>>, !.updated_at = t] : r \in tbl}
    ELSE {[r EXCEPT !.value = <<v>>, !.updated_at = t] : r \in tbl}
         \cup {[key |-> k, value |-> <<v>>, updated_at |-> t]}

\* INSERT INTO capture_state(key, value) VALUES(?,?) ON CONFLICT(key) DO
\* UPDATE SET value=excluded.value, updated_at=CURRENT_TIMESTAMP
set_state(tbl, k, v, t) ==
    IF StateRows(tbl, k) # {}
    THEN {IF r.key = k THEN [r EXCEPT !.value = <<v>>, !.updated_at = t] ELSE r : r \in tbl}
    ELSE tbl \cup {[key |-> k, value |-> <<v>>, updated_at |-> t]}

\* row["value"] if row else default
get_state(tbl, k, default) ==
    IF StateRows(tbl, k) # {}
    THEN (CHOOSE r \in StateRows(tbl, k) : TRUE).value
    ELSE default

SetState ==
    \E k \in StateKeys, v \in StateValues :
        /\ capture_state' = set_state(capture_state, k, v, now)
        /\ written' = [written EXCEPT ![k] = <<v>>]
        /\ statelog' = [op |-> "set", key |-> k, arg |-> <<v>>, ret |-> NULL]
        /\ UNCHANGED <<pokemon, seq, now, last, runnerVars, batchVars, walk>>

GetState ==
    \E k \in StateKeys, d \in StateDefaults :
        /\ statelog' = [op |-> "get", key |-> k, arg |-> d,
                        ret |-> get_state(capture_state, k, d)]
        /\ UNCHANGED <<pokemon, seq, now, last, runnerVars, batchVars, capture_state,
                       written, walk>>

NextState ==
    \/ SetState
    \/ GetState

\* ------------------------------------------------------------------ capture.py: capture_all_pokemon

GRID_COLS == 5

\* visible_rows(screen): the full grid rows of one page
rows_per_page == MaxRows

\* str(n) and int(s) on the numbers the walk stores
str(n) == ToString(n)
int(s) == CHOOSE n \in 0..200 : ToString(n) = s

\* the --limit argument: none (0), or a number of positions
WalkLimits == {0, 7}

\* the flat list fills the grid in row-major order: the slots that hold a
\* Pokemon are the first ones
Occupied(page, row, col) ==
    page * rows_per_page * GRID_COLS + row * GRID_COLS + col < Population

\* IMAGES_DIR / "detail" / f"pokemon_{position:04d}_c{col}r{row}.png"
SlotPath(position, col, row) == <<"images/detail/pokemon", position, "c", col, "r", row>>

\* capture_slot(driver, screen, position, col, row): the path of the detail
\* image, None when the tap changed nothing
capture_slot(occupied, position, col, row) ==
    IF occupied THEN <<SlotPath(position, col, row)>> ELSE NULL

\* the walk is called with its arguments, reads total_pages and sets position
WalkStart ==
    \E start_page \in 0..(MaxPages - 1), start_col \in 0..(GRID_COLS - 1),
       start_row \in 0..(rows_per_page - 1), limit \in WalkLimits :
        LET total_pages == int(get_state(capture_state, "total_pages", <<"200">>)[1])
        IN  /\ walk.pc = "idle"
            /\ walk.n < MaxWalks
            /\ walk' = [walk EXCEPT
                          !.pc = IF start_page < total_pages THEN "page" ELSE "complete",
                          !.n = @ + 1,
                          !.start = <<start_page, start_col, start_row>>,
                          !.limit = limit,
                          !.total_pages = total_pages,
                          !.page_num = start_page,
                          !.position = start_page * rows_per_page * GRID_COLS,
                          !.prev_page_hash = FALSE]
            /\ UNCHANGED <<pokemon, seq, now, last, runnerVars, batchVars, capture_state,
                           written, statelog>>

\* top of the page loop: the page looks like the previous one (end of list),
\* or the row and column loops start
WalkPage ==
    /\ walk.pc = "page"
    /\ \/ /\ walk.prev_page_hash
          /\ walk' = [walk EXCEPT !.pc = "complete"]
       \/ LET first == walk.page_num = walk.start[1]
              row_start == IF first THEN walk.start[3] ELSE 0
              col_start == IF first THEN walk.start[2] ELSE 0
          IN  walk' = [walk EXCEPT !.pc = "slot", !.prev_page_hash = TRUE,
                                   !.row = row_start, !.col = col_start]
    /\ UNCHANGED <<pokemon, seq, now, last, runnerVars, batchVars, capture_state,
                   written, statelog>>

\* path = capture_slot(driver, screen, position, col, row), and the upsert of
\* a slot that is not empty
WalkSlot ==
    LET path == capture_slot(Occupied(walk.page_num, walk.row, walk.col),
                             walk.position, walk.col, walk.row)
        slot == <<walk.page_num, walk.col, walk.row>>
    IN  /\ walk.pc = "slot"
        /\ IF path # NULL
           THEN /\ DoUpsert("capture", [box_number |-> walk.page_num,
                                        box_slot |-> walk.row * GRID_COLS + walk.col,
                                        detail_screenshot_path |-> path])
                /\ files' = files \cup {path[1]}
           ELSE UNCHANGED <<pokemon, seq, last, files>>
        /\ walk' = [walk EXCEPT
                      !.pc = "set_page",
                      !.done = @ \cup {slot},
                      !.recent = <<slot>> \o SubSeq(@, 1, IF @ = <<>> THEN 0 ELSE 1),
                      !.shot = <<[position |-> walk.position, page |-> walk.page_num,
                                  col |-> walk.col, row |-> walk.row]>>]
        /\ UNCHANGED <<now, runpc, queue, conc, sem, waiters, task, counters, trace,
                       batchVars, capture_state, written, statelog>>

\* set_state("detail_last_page", str(page_num))
WalkSetPage ==
    /\ walk.pc = "set_page"
    /\ capture_state' = set_state(capture_state, "detail_last_page", str(walk.page_num), now)
    /\ walk' = [walk EXCEPT !.pc = "set_col"]
    /\ UNCHANGED <<pokemon, seq, now, last, runnerVars, batchVars, written, statelog>>

\* set_state("detail_last_col", str(col))
WalkSetCol ==
    /\ walk.pc = "set_col"
    /\ capture_state' = set_state(capture_state, "detail_last_col", str(walk.col), now)
    /\ walk' = [walk EXCEPT !.pc = "set_row"]
    /\ UNCHANGED <<pokemon, seq, now, last, runnerVars, batchVars, written, statelog>>

\* where the loops go after a slot: the return at the limit, the next column,
\* the next row, or scroll_down and the next page
NextSlot(w) ==
    LET position == w.position + 1
    IN  IF w.limit # 0 /\ position >= w.limit
        THEN [w EXCEPT !.pc = "idle", !.position = position]
        ELSE IF w.col + 1 < GRID_COLS
        THEN [w EXCEPT !.pc = "slot", !.position = position, !.col = @ + 1]
        ELSE IF w.row + 1 < rows_per_page
        THEN [w EXCEPT !.pc = "slot", !.position = position, !.row = @ + 1, !.col = 0]
        ELSE [w EXCEPT !.pc = IF w.page_num + 1 < w.total_pages THEN "page" ELSE "complete",
                       !.position = position, !.page_num = @ + 1]

\* set_state("detail_last_row", str(row)); position += 1; the limit test
WalkSetRow ==
    /\ walk.pc = "set_row"
    /\ capture_state' = set_state(capture_state, "detail_last_row", str(walk.row), now)
    /\ walk' = NextSlot(walk)
    /\ UNCHANGED <<pokemon, seq, now, last, runnerVars, batchVars, written, statelog>>

\* set_state("detail_complete", "true") after the page loop
WalkComplete ==
    /\ walk.pc = "complete"
    /\ capture_state' = set_state(capture_state, "detail_complete", "true", now)
    /\ written' = [written EXCEPT !["detail_complete"] = <<"true">>]
    /\ walk' = [walk EXCEPT !.pc = "idle"]
    /\ UNCHANGED <<pokemon, seq, now, last, runnerVars, batchVars, statelog>>

\* the process is stopped where it is
WalkInterrupt ==
    /\ walk.pc # "idle"
    /\ walk' = [walk EXCEPT !.pc = "idle"]
    /\ UNCHANGED <<pokemon, seq, now, last, runnerVars, batchVars, capture_state,
                   written, statelog>>

\* the store after the list pages were captured: total_pages is set
InitCapture ==
    /\ pokemon = {}
    /\ seq = 0
    /\ now = 1
    /\ last = NoCall
    /\ files = {}
    /\ runpc = "idle"
    /\ queue = <<>>
    /\ conc = 0
    /\ sem = 0
    /\ waiters = <<>>
    /\ task = <<>>
    /\ counters = ZeroCounters
    /\ trace = <<>>
    /\ BatchIdle
    /\ capture_state = set_state({}, "total_pages", str(MaxPages), 0)
    /\ written = [k \in StateKeys |-> IF k = "total_pages" THEN <<str(MaxPages)>> ELSE NULL]
    /\ statelog = NoStateCall
    /\ walk = NoWalk

NextCapture ==
    \/ WalkStart
    \/ WalkPage
    \/ WalkSlot
    \/ WalkSetPage
    \/ WalkSetCol
    \/ WalkSetRow
    \/ WalkComplete
    \/ WalkInterrupt

SpecCapture == InitCapture /\ [][NextCapture]_vars

\* ------------------------------------------------------------------ specifications

Init ==
    /\ pokemon = {}
    /\ seq = 0
    /\ now = 1
    /\ last = NoCall
    /\ files = {}
    /\ runpc = "idle"
    /\ queue = <<>>
    /\ conc = 0
    /\ sem = 0
    /\ waiters = <<>>
    /\ task = <<>>
    /\ counters = ZeroCounters
    /\ trace = <<>>
    /\ BatchIdle
    /\ StateIdle

\* the upsert API under arbitrary callers
Next == UpsertCall

Spec == Init /\ [][Next]_vars

\* the writers of the repository interleaved on one store
NextWriters ==
    \/ RecordBoxScreenshot
    \/ CaptureSlot
    \/ ParseOne
    \/ WriteResult
    \/ ImportItem

SpecWriters == Init /\ [][NextWriters]_vars

\* the progress store under arbitrary get_state and set_state calls
SpecState == Init /\ [][NextState]_vars

\* ------------------------------------------------------------------ store claims

\* columns a caller may set: all but the surrogate id and the natural key
DataCols == Columns \ ({"id"} \cup KeyCols)

HasKey(d) == KeyCols \subseteq DOMAIN d

\* the effect the upsert contract prescribes for mapping d on a step
UpsertContract(d) ==
    LET old == Conflict(pokemon, d)
        new == Conflict(pokemon', d)
    IN  IF old = {}
        THEN /\ Cardinality(pokemon') = Cardinality(pokemon) + 1
             /\ pokemon \subseteq pokemon'
             /\ \A r \in pokemon' \ pokemon :
                    \A c \in Columns \ {"id"} :
                        r[c] = IF c \in DOMAIN d THEN d[c] ELSE ColumnDefault(c)
        ELSE /\ Cardinality(pokemon') = Cardinality(pokemon)
             /\ pokemon' \ new = pokemon \ old
             /\ \A r \in old : \E r2 \in new :
                    \A c \in Columns \ (DOMAIN d \ KeyCols) : r2[c] = r[c]

\* C1: every call of upsert_pokemon with a mapping of table columns that
\* contains both key fields inserts exactly one record holding exactly the
\* supplied fields when the key is absent, and otherwise keeps the number of
\* records and changes only the supplied non-key fields of the addressed record.
C1_UpsertInsertsOrMerges ==
    [][(HasKey(last'.data) /\ cols(last'.data) \subseteq Columns)
          => UpsertContract(last'.data)]_vars

\* C1, for mappings that supply at least one non-key column
C1_UpsertWithNonKeyField ==
    [][(HasKey(last'.data) /\ cols(last'.data) \subseteq Columns
                           /\ updates(last'.data) # {})
          => UpsertContract(last'.data)]_vars

\* C2: no two records of the pokemon table have the same
\* (box_number, box_slot) pair, whatever writers ran and in whatever order.
C2_KeyUnique ==
    \A r1 \in pokemon, r2 \in pokemon :
        (r1.box_number = r2.box_number /\ r1.box_slot = r2.box_slot) => r1 = r2

\* two records exist and one of them was written by capture and by an
\* extraction write path
C2_Witness ==
    /\ Cardinality(pokemon) >= 2
    /\ \E r \in pokemon : r.detail_screenshot_path # NULL /\ r.parsed_at # NULL

\* C3: the value upsert_pokemon returns is the id of the record with the
\* supplied (box_number, box_slot), after an insert and after an update.
C3_ReturnsRecordId ==
    (last.op = "api" /\ ~last.raised)
        => \E r \in Conflict(pokemon, last.data) : last.ret = <<r.id>>

\* C4: a write by parse_one, write_result or cmd_import_all leaves every
\* column of an existing record that was non-null, and for which the write
\* carries no non-null value, at its old value.
C4_ReextractionKeepsData ==
    [][last'.op \in {"parse_one", "write_result", "import_all"}
          => \A r \in Conflict(pokemon, last'.data) :
                \A c \in DataCols :
                    (r[c] # NULL /\ (c \notin DOMAIN last'.data \/ last'.data[c] = NULL))
                        => \E r2 \in Conflict(pokemon', last'.data) : r2[c] = r[c]]_vars

\* ------------------------------------------------------------------ runner claims

RECURSIVE SumTo(_, _)
\* f[1] + ... + f[n]
SumTo(f, n) == IF n = 0 THEN 0 ELSE f[n] + SumTo(f, n - 1)

\* the success and error counters are the sums of the items' shares
CountersAreShares ==
    /\ counters.ok = SumTo([i \in DOMAIN trace |-> trace[i].ok], Len(trace))
    /\ counters.errors = SumTo([i \in DOMAIN trace |-> trace[i].errors], Len(trace))

\* the row of queue item i
RowsOfItem(i) ==
    {r \in pokemon : r.box_number = queue[i].box /\ r.box_slot = queue[i].slot}

\* the row of item i is one the run started on: the runner has not written it
RowUntouched(i) ==
    \A r \in RowsOfItem(i) :
        \E kind \in Kinds : r = RowOf(<<queue[i].box, queue[i].slot>>, kind)

\* item i's key carried a parsed timestamp older than this run
ParsedBeforeRun(i) ==
    \E r \in RowsOfItem(i) : r.parsed_at # NULL /\ r.parsed_at # <<isoformat(now)>>

\* every attempt of the history h ended in one of the tags
AllIn(h, tags) == \A j \in DOMAIN h : h[j] \in tags

\* C5: a queue item whose key has a parsed timestamp from before the run is
\* counted as skipped, never reaches an extraction call and is never written.
C5_ParsedItemsSkipped ==
    /\ \A i \in DOMAIN task :
        ParsedBeforeRun(i) =>
            /\ task[i].pc \in {"new", "ret_skipped"}
            /\ runpc = "done" => task[i].pc = "ret_skipped"
            /\ trace[i].hist = <<>>
            /\ trace[i].upserts = 0
            /\ RowUntouched(i)
    /\ counters.skipped = Cardinality({i \in DOMAIN task : task[i].pc = "ret_skipped"})

\* a finished run that skipped a parsed item and extracted another
C5_Witness ==
    /\ runpc = "done"
    /\ \E i \in DOMAIN task : ParsedBeforeRun(i) /\ task[i].pc = "ret_skipped"
    /\ \E j \in DOMAIN task : task[j].pc = "ret_ok"

\* C6: when the run is done the four counters add up to the number of queue
\* items, whatever the outcomes of the attempts were.
C6_CountersCoverQueue ==
    runpc = "done" =>
        counters.ok + counters.errors + counters.skipped + counters.missing = Len(queue)

\* C7: rate-limited attempts wait 2, 4, 8 seconds, an item is attempted at
\* most 3 times, and an item whose 3 attempts were all rate-limited is counted
\* exactly once as an error.
C7_RateLimitBackoffThenError ==
    /\ CountersAreShares
    /\ \A i \in DOMAIN task :
        /\ Len(trace[i].hist) <= 3
        /\ AllIn(trace[i].hist, {"rate_limit"})
              => trace[i].sleeps = SubSeq(<<2, 4, 8>>, 1, Len(trace[i].hist))
        /\ (task[i].pc \in Returned /\ trace[i].hist = <<"rate_limit", "rate_limit", "rate_limit">>)
              => trace[i].errors = 1

\* C8: an item whose first one or two attempts were rate-limited and whose
\* next attempt succeeded was upserted exactly once, added exactly 1 to the
\* success counter and nothing to the error counter.
C8_RateLimitThenSuccess ==
    /\ CountersAreShares
    /\ \A i \in DOMAIN task :
        trace[i].hist \in {<<"rate_limit", "ok">>, <<"rate_limit", "rate_limit", "ok">>}
            => /\ task[i].pc = "ret_ok"
               /\ trace[i].upserts = 1
               /\ trace[i].ok = 1
               /\ trace[i].errors = 0
               /\ \E r \in RowsOfItem(i) : r.parsed_at = <<isoformat(now)>>

\* a finished run with an item that succeeded on its third attempt after two
\* rate limits
C8_Witness ==
    /\ runpc = "done"
    /\ \E i \in DOMAIN task : trace[i].hist = <<"rate_limit", "rate_limit", "ok">>

\* C9: a malformed response to the first or the second call of an item adds
\* exactly 1 to the error counter, ends the item without a further attempt
\* and leaves its record as it was.
C9_MalformedIsFinalError ==
    /\ CountersAreShares
    /\ \A i \in DOMAIN task :
        (\E j \in DOMAIN trace[i].hist : trace[i].hist[j] = "json_error")
            => /\ task[i].pc = "ret_json_err"
               /\ trace[i].hist[Len(trace[i].hist)] = "json_error"
               /\ AllIn(SubSeq(trace[i].hist, 1, Len(trace[i].hist) - 1),
                        {"rate_limit", "exception"})
               /\ trace[i].errors = 1
               /\ trace[i].ok = 0
               /\ trace[i].upserts = 0
               /\ RowUntouched(i)

\* a finished run in which one item met a malformed first response and another
\* a malformed second response
C9_Witness ==
    /\ runpc = "done"
    /\ \E i \in DOMAIN task : task[i].pc = "ret_json_err" /\ trace[i].jsoncall = 1
    /\ \E j \in DOMAIN task : task[j].pc = "ret_json_err" /\ trace[j].jsoncall = 2

\* C10: an attempt that fails with another exception is followed by a sleep of
\* 1 second and a retry, an item is attempted at most 3 times, and an item
\* whose 3 attempts failed with other exceptions, or with a mix of rate limits
\* and other exceptions in any order, is counted exactly once as an error.
C10_ExceptionRetriedThenError ==
    /\ CountersAreShares
    /\ \A i \in DOMAIN task :
        /\ Len(trace[i].hist) <= 3
        /\ \A j \in 1..Len(trace[i].hist) :
              (trace[i].hist[j] = "exception" /\ j < 3 /\ j <= Len(trace[i].sleeps))
                  => trace[i].sleeps[j] = 1
        /\ (/\ task[i].pc \in Returned
            /\ Len(trace[i].hist) = 3
            /\ AllIn(trace[i].hist, {"rate_limit", "exception"})
            /\ \E j \in 1..3 : trace[i].hist[j] = "exception")
              => trace[i].errors = 1

\* the items inside the async with block: awaiting a call or a backoff sleep
InSection == {i \in DOMAIN task : task[i].pc \in {"call1", "call2", "sleep"}}

\* the items that hold a permit: those inside and those woken by a release
Holding == InSection \cup {i \in DOMAIN task : task[i].pc = "granted"}

\* C11: during a run with concurrency limit N at most N items are inside the
\* extraction section; the permits held and the free permits add up to N.
C11_AtMostNInFlight ==
    runpc = "gather" =>
        /\ Cardinality(InSection) <= conc
        /\ Cardinality(Holding) + sem = conc
        /\ sem >= 0

\* the section is full, one item waits at the gate, and an item inside has
\* already been retried
C11_Witness ==
    /\ runpc = "gather"
    /\ Cardinality(InSection) = conc
    /\ waiters # <<>>
    /\ \E i \in InSection : trace[i].hist # <<>>

\* the queue items of key k
ItemsOfKey(k) == {i \in DOMAIN task : queue[i].box = k[1] /\ queue[i].slot = k[2]}

\* item i has had a successful extraction in this run
Succeeded(i) ==
    trace[i].hist # <<>> /\ trace[i].hist[Len(trace[i].hist)] = "ok"

\* C12: at every point of a run a record's parsed timestamp is non-null
\* exactly when it was non-null before the run or an extraction for its key
\* has succeeded in this run; items that ended in an error or as missing, or
\* that are still in flight or waiting, keep a null parsed timestamp.
C12_ParsedIffDoneOrBefore ==
    /\ \A k \in Keys :
        \A r \in {x \in pokemon : x.box_number = k[1] /\ x.box_slot = k[2]} :
            r.parsed_at # NULL
                <=> (r = RowOf(k, "parsed") \/ \E i \in ItemsOfKey(k) : Succeeded(i))
    /\ \A i \in DOMAIN task :
        task[i].pc \in {"ret_json_err", "end", "ret_missing", "acquire", "granted",
                        "call1", "call2", "sleep"}
            => \A r \in RowsOfItem(i) : r.parsed_at = NULL

\* mid-run: one item is written and parsed, the other is in a backoff sleep
\* with a null parsed timestamp
C12_Witness ==
    /\ runpc = "gather"
    /\ \E i \in DOMAIN task :
        /\ task[i].pc = "ret_ok"
        /\ \E r \in RowsOfItem(i) : r.parsed_at = <<isoformat(now)>>
    /\ \E j \in DOMAIN task :
        /\ task[j].pc = "sleep"
        /\ \E r \in RowsOfItem(j) : r.parsed_at = NULL

\* C13: with fair scheduling and a service that answers every call, every
\* queue item returns after at most 3 attempts, every item waiting at the
\* gate is admitted, and the run completes.
C13_RunCompletes ==
    /\ [](\A i \in DOMAIN task : Len(trace[i].hist) <= LastAttempt + 1)
    /\ \A i \in 1..MaxSlot :
        /\ (i \in DOMAIN task) ~> (i \in DOMAIN task /\ task[i].pc \in Returned)
        /\ (i \in DOMAIN task /\ task[i].pc = "acquire")
              ~> (i \in DOMAIN task /\ i \in Holding)
    /\ (runpc = "gather") ~> (runpc = "done")

\* a finished run with limit 1 whose second item had to wait at the gate and
\* whose first item used all 3 attempts
C13_Witness ==
    /\ runpc = "done"
    /\ conc = 1
    /\ Len(queue) > 1
    /\ \A i \in DOMAIN task : trace[i].hist # <<>>
    /\ \E i \in DOMAIN task : Len(trace[i].hist) = LastAttempt + 1

\* where process_one returns for an item with the attempt outcomes h whose
\* row was parsed or not and whose image existed or not when it started
OwnReturn(h, parsed, image) ==
    IF h = <<>> THEN (IF parsed THEN "ret_skipped" ELSE IF image THEN "none" ELSE "ret_missing")
    ELSE IF h[Len(h)] = "ok" THEN "ret_ok"
    ELSE IF h[Len(h)] = "json_error" THEN "ret_json_err"
    ELSE IF Len(h) = LastAttempt + 1 THEN "end"
    ELSE "none"

\* the merged fields the item's own responses can give
OwnData(item) ==
    IF HasSecond(item) THEN {Merge(f, c) : f \in Fields1, c \in Fields2} ELSE Fields1

\* the rows item i's own success writes over the row the run started on
OwnWrites(i) ==
    {UpdateRow(RowOf(<<queue[i].box, queue[i].slot>>, kind), write_update(queue[i], d, now)) :
        kind \in {"pending", "pending2"}, d \in OwnData(queue[i])}

\* C14: what an item ends as, what is upserted for it and how many attempts
\* it makes are fixed by its own row, image and responses, whatever the
\* outcomes of the attempts of the other items are.
C14_FailuresIsolated ==
    \A i \in DOMAIN task :
        /\ task[i].pc \in Returned =>
              task[i].pc = OwnReturn(trace[i].hist,
                                     \E r \in RowsOfItem(i) : r = RowOf(<<queue[i].box, queue[i].slot>>, "parsed"),
                                     queue[i].image_path[1] \in files)
        /\ (task[i].pc \in Returned /\ trace[i].hist # <<>>)
              => task[i].attempt + 1 = Len(trace[i].hist)
        /\ AllIn(SubSeq(trace[i].hist, 1, Len(trace[i].hist) - 1), {"rate_limit", "exception"})
        /\ IF Succeeded(i)
           THEN RowsOfItem(i) \subseteq OwnWrites(i) /\ trace[i].upserts = 1
           ELSE RowUntouched(i) /\ trace[i].upserts = 0

\* a finished run of two items in flight together: one used up its attempts
\* on rate limits, the other succeeded at its first attempt
C14_Witness ==
    /\ runpc = "done"
    /\ conc = 2
    /\ \E a \in DOMAIN task, b \in DOMAIN task :
        /\ trace[a].hist = <<"rate_limit", "rate_limit", "rate_limit">>
        /\ trace[b].hist = <<"ok">>
        /\ task[b].pc = "ret_ok"

\* C15: during a run at most one item of a key holds a permit of the
\* extraction section at any time, and at most one item of a key upserts.
C15_OneWorkerPerKey ==
    \A k \in Keys :
        /\ Cardinality(ItemsOfKey(k) \cap Holding) <= 1
        /\ Cardinality({i \in ItemsOfKey(k) : trace[i].upserts > 0}) <= 1
        /\ \A i \in ItemsOfKey(k) : trace[i].upserts <= 1

\* two items of different keys are inside the section together
C15_Witness ==
    /\ runpc = "gather"
    /\ \E i \in InSection, j \in InSection :
        /\ i # j
        /\ <<queue[i].box, queue[i].slot>> # <<queue[j].box, queue[j].slot>>

\* the run of the scenario: both slots in the queue, the service answered the
\* one call for (0,0) with the object and the one call for (0,1) with text
\* that is no JSON, and neither row was parsed before
Scenario ==
    /\ Len(queue) = 2
    /\ queue[1] = Item(<<0, 0>>)
    /\ "image_path2" \notin DOMAIN queue[2]
    /\ trace[1].hist = <<"ok">>
    /\ \E r \in RowsOfItem(1) : r.raw_json = <<json_dumps(FullFields)>>
    /\ trace[2].hist = <<"json_error">>
    /\ trace[2].jsoncall = 1

\* C16: the run over two pending records (0,0) and (0,1), answered with
\* {species_name: Pikachu, level: 50} and with a non-JSON body, ends with
\* (0,0) holding the fields and a parsed timestamp, (0,1) as it was, one
\* success and one error, in either order of completion.
C16_EndToEnd ==
    (runpc = "done" /\ Scenario) =>
        /\ \E r \in pokemon :
            /\ r.box_number = 0 /\ r.box_slot = 0
            /\ r.species_name = <<"Pikachu">>
            /\ r.level = <<50>>
            /\ r.parsed_at # NULL
        /\ RowOf(<<0, 1>>, "pending") \in pokemon
        /\ Cardinality(pokemon) = 2
        /\ counters = [ok |-> 1, errors |-> 1, skipped |-> 0, missing |-> 0]

\* the scenario has run to its end with both items in flight together, so
\* that either could complete first
C16_Witness ==
    /\ runpc = "done"
    /\ Scenario
    /\ conc = 2

\* ------------------------------------------------------------------ batch claims

\* the smallest n with n * k >= m
Ceil(m, k) == CHOOSE n \in 0..m : n * k >= m /\ \A x \in 0..m : x * k >= m => n <= x

\* this step is a cmd_split
SplitStep ==
    batchlog'.cmd = "split" /\ (batchlog' # batchlog \/ inputDir' # inputDir)

\* this step is a cmd_import_all
ImportStep ==
    /\ batchlog'.cmd = "import"
    /\ <<batchlog, importedDir, reads>>' # <<batchlog, importedDir, reads>>

\* C17: a split of M pending items with chunk size K makes ceil(M/K) chunks
\* (none when M = 0), writes chunk i with the pending items i*K .. i*K+K-1 in
\* queue order when no file of that name exists, and never changes a chunk
\* file that exists.
C17_SplitChunks ==
    [][SplitStep =>
        LET K == batchlog'.size
            p == pending(parse_queue, pokemon)
            M == Len(p)
            n == Ceil(M, K)
        IN  /\ batchlog'.ret = n
            /\ inputDir \subseteq inputDir'
            /\ \A i \in 0..(n - 1) :
                  i \notin Names(inputDir) =>
                      \E f \in inputDir' :
                          /\ f.name = i
                          /\ Len(f.content) = (IF i * K + K < M THEN K ELSE M - i * K)
                          /\ \A j \in 1..Len(f.content) : f.content[j] = p[i * K + j]
            /\ \A f \in inputDir' \ inputDir : f.name \in 0..(n - 1) \ Names(inputDir)
            /\ \A f \in inputDir', g \in inputDir' : f.name = g.name => f = g
            /\ M = 0 => (inputDir' = inputDir /\ batchlog'.ret = 0)]_vars

\* a split has run over a chunk file that holds something else than the chunk
\* the split computed for its name
C17_Witness ==
    /\ batchlog.cmd = "split"
    /\ \E f \in inputDir :
        /\ f.name < batchlog.ret
        /\ f.content # batches(pending(parse_queue, pokemon), batchlog.size)[f.name + 1]

\* C18: every item of a chunk file that a split writes has, at the time of
\* that split, no record or a record with a null parsed timestamp.
C18_SplitSkipsParsed ==
    [][\A f \in inputDir' \ inputDir :
          \A j \in DOMAIN f.content :
              \A r \in pokemon :
                  (r.box_number = f.content[j].box /\ r.box_slot = f.content[j].slot)
                      => r.parsed_at = NULL]_vars

\* after an import, a split has left a parsed key out of every chunk file
C18_Witness ==
    /\ batchlog.cmd = "split"
    /\ importedDir # {}
    /\ inputDir # {}
    /\ \E r \in pokemon :
        /\ r.parsed_at # NULL
        /\ \A f \in inputDir : \A j \in DOMAIN f.content :
              <<f.content[j].box, f.content[j].slot>> # <<r.box_number, r.box_slot>>

\* C19: an import moves every result file it processed from output/ to
\* imported/; an import that finds no result file performs no upsert and
\* leaves the store as it is; no file is read by two imports.
C19_ImportIdempotent ==
    [][ImportStep =>
        /\ \A f \in outputDir : f \in importedDir' /\ f \notin outputDir'
        /\ outputDir = {} =>
              /\ pokemon' = pokemon
              /\ seq' = seq
              /\ importedDir' = importedDir
              /\ batchlog'.ret = 0
        /\ \A n \in DOMAIN reads' : reads'[n] <= 1]_vars

\* an import that found nothing to read, after an import that archived a file
C19_Witness ==
    /\ batchlog = [cmd |-> "import", size |-> 0, ret |-> 0]
    /\ importedDir # {}
    /\ outputDir = {}
    /\ \E n \in DOMAIN reads : reads[n] = 1

\* ------------------------------------------------------------------ progress store claims

\* C20: capture_state holds at most one row per key, the row of a key holds
\* the value of the most recent set_state for it (no row when it was never
\* set, so that a set_state changes no other key), and get_state returns
\* that value, or the default it was given when the key was never set.
C20_ProgressStore ==
    /\ \A k \in StateKeys :
        /\ Cardinality(StateRows(capture_state, k)) <= 1
        /\ written[k] = NULL => StateRows(capture_state, k) = {}
        /\ written[k] # NULL => \E r \in StateRows(capture_state, k) : r.value = written[k]
    /\ \A r \in capture_state : r.key \in StateKeys
    /\ statelog.op = "get" =>
          statelog.ret = (IF written[statelog.key] = NULL THEN statelog.arg
                          ELSE written[statelog.key])

\* get_state has returned the stored value of a key, not the default, while
\* another key holds a different value and a third was never set
C20_Witness ==
    /\ statelog.op = "get"
    /\ statelog.ret # statelog.arg
    /\ statelog.arg # NULL
    /\ \E k \in StateKeys :
        /\ k # statelog.key
        /\ written[k] # NULL
        /\ written[k] # statelog.ret
    /\ \E k \in StateKeys : written[k] = NULL

\* ------------------------------------------------------------------ merge and import claims

\* in this step item i, holding its first response, gets its second response
\* and is written
MergeStep(i) ==
    /\ i \in DOMAIN task
    /\ task[i].pc = "call2"
    /\ trace'[i].upserts = trace[i].upserts + 1

\* C21: for an item with a second image the mapping upserted holds, for every
\* field of the two responses, the second response's value when that is
\* non-null, else the first response's value; a field whose merged value is
\* null is not in the mapping.
C21_TwoImageMerge ==
    [][\A i \in 1..MaxSlot :
          MergeStep(i) =>
              LET first == task[i].data
                  u == last'.data
              IN  /\ last'.op = "write_result"
                  /\ ~last'.raised
                  /\ u.box_number = queue[i].box /\ u.box_slot = queue[i].slot
                  /\ \E second \in Fields2 :
                        \A c \in DOMAIN first \cup DOMAIN second :
                            LET e == IF c \in DOMAIN second /\ second[c] # NULL
                                     THEN second[c]
                                     ELSE IF c \in DOMAIN first THEN first[c] ELSE NULL
                            IN  IF e = NULL THEN c \notin DOMAIN u
                                ELSE c \in DOMAIN u /\ u[c] = e
                  /\ \A r \in {x \in pokemon' : x.box_number = u.box_number
                                               /\ x.box_slot = u.box_slot} :
                        \A c \in DOMAIN u : r[c] = u[c]]_vars

\* an item with a second image was written with the date of the second
\* response and without the level that is null in both responses
C21_Witness ==
    /\ last.op = "write_result"
    /\ "date_caught" \in DOMAIN last.data
    /\ "level" \notin DOMAIN last.data
    /\ \E i \in DOMAIN task :
        /\ task[i].pc = "ret_ok"
        /\ HasSecond(queue[i])
        /\ queue[i].slot = last.data.box_slot

\* the items of the result files in output/ that carry key k, each with the
\* name of its file
ResultsFor(k) ==
    {p \in UNION {{<<f.name, f.content[j]>> : j \in DOMAIN f.content} : f \in outputDir} :
        p[2].box = k[1] /\ p[2].slot = k[2]}

\* the entries of an item whose name is a column and whose value is non-null
Written(item) == {c \in DOMAIN item \cap Columns : item[c] # NULL}

\* the record of key k before the step, or the column defaults without one
Prior(k) ==
    IF \E r \in pokemon : r.box_number = k[1] /\ r.box_slot = k[2]
    THEN CHOOSE r \in pokemon : r.box_number = k[1] /\ r.box_slot = k[2]
    ELSE [c \in Columns |-> ColumnDefault(c)]

\* C22: an import run upserts every item of every result file: afterwards the
\* record of each item's key has the timestamp of this run, the serialised
\* item that was imported last for the key, each non-null entry of that item
\* whose name is a column, and its earlier value in every column that no item
\* of the key gave a non-null value for; an item without a species or with an
\* unknown name is still written, every file is archived, and records of
\* other keys stay as they were.
C22_ImportWritesEveryItem ==
    [][ImportStep =>
          /\ batchlog'.ret =
                Cardinality(UNION {{<<f.name, j>> : j \in DOMAIN f.content} : f \in outputDir})
          /\ Names(outputDir) \subseteq Names(importedDir')
          /\ \A k \in Keys :
                LET its == ResultsFor(k)
                    rows == {r \in pokemon' : r.box_number = k[1] /\ r.box_slot = k[2]}
                IN  IF its = {}
                    THEN rows = {r \in pokemon : r.box_number = k[1] /\ r.box_slot = k[2]}
                    ELSE LET lst == (CHOOSE p \in its : \A q \in its : q[1] <= p[1])[2]
                         IN  /\ Cardinality(rows) = 1
                             /\ \A r \in rows :
                                   /\ r.parsed_at = <<isoformat(now)>>
                                   /\ r.raw_json = <<json_dumps(lst)>>
                                   /\ \A c \in Written(lst) : r[c] = lst[c]
                                   /\ \A c \in Columns \ ({"id", "parsed_at", "raw_json"} \cup KeyCols) :
                                         (\A p \in its : c \notin Written(p[2]))
                                             => r[c] = Prior(k)[c]]_vars

\* the items of the files in a directory
ResultItemsOf(dir) == UNION {{f.content[j] : j \in DOMAIN f.content} : f \in dir}

\* an import has written an item that has no species and a name that is no
\* column over a record that had a species, which the record keeps
C22_Witness ==
    /\ batchlog.cmd = "import"
    /\ batchlog.ret > 0
    /\ \E r \in pokemon, it \in ResultItemsOf(importedDir) :
          /\ r.raw_json = <<json_dumps(it)>>
          /\ "types" \in DOMAIN it
          /\ it.species_name = NULL
          /\ r.species_name # NULL
          /\ r.parsed_at = <<isoformat(now)>>

\* a split leaves a pending queue item in no chunk file of the input
\* directory
Uncovered ==
    \E j \in DOMAIN parse_queue :
        /\ <<parse_queue[j].box, parse_queue[j].slot>> \notin parsed_keys(pokemon)
        /\ \A f \in inputDir' : \A n \in DOMAIN f.content : f.content[n] # parse_queue[j]

\* C23: when a split returns, every queue item that was pending at that split
\* is in at least one chunk file of the input directory, whatever splits and
\* imports ran before and however the queue changed between them.
C23_SplitCoversPending ==
    [][SplitStep => ~Uncovered]_vars

\* ------------------------------------------------------------------ walk claims

\* the global sequential index of a slot
GlobalIndex(page, row, col) == page * rows_per_page * GRID_COLS + row * GRID_COLS + col

\* C24: the position index the walk passes to capture_slot for a slot is the
\* slot's global sequential index, in a walk from the first slot and in a
\* walk resumed from any start page, column and row.
C24_PositionIsGlobalIndex ==
    \A s \in {walk.shot[i] : i \in DOMAIN walk.shot} :
        s.position = GlobalIndex(s.page, s.row, s.col)

\* the three cursor keys are all set
CursorSet ==
    \A k \in {"detail_last_page", "detail_last_col", "detail_last_row"} :
        StateRows(capture_state, k) # {}

\* the slot the persisted cursor names when its three keys are read together
Cursor ==
    <<int(get_state(capture_state, "detail_last_page", NULL)[1]),
      int(get_state(capture_state, "detail_last_col", NULL)[1]),
      int(get_state(capture_state, "detail_last_row", NULL)[1])>>

\* C25: wherever the walk is stopped, the persisted cursor, once its three
\* keys are set, names a slot the walk has processed: the most recently
\* processed slot or the one before it.
C25_CursorNamesProcessedSlot ==
    CursorSet =>
        /\ Cursor \in walk.done
        /\ \E i \in DOMAIN walk.recent : walk.recent[i] = Cursor

====
